---- MODULE Spec2Model ----
(***************************************************************************)
(* Model of src/service-worker.js, the Luvano marketplace service worker:  *)
(* the install / activate lifecycle, the fetch dispatcher and its three    *)
(* caching strategies (cacheFirst, networkFirst, staleWhileRevalidate),    *)
(* and the offline fallback.  The host's CacheStorage is a sequence of     *)
(* named caches in creation order; every fetch event runs as its own       *)
(* handler instance that advances from one await to the next.              *)
(***************************************************************************)
EXTENDS Naturals, Sequences, FiniteSets, Bags, TLC

VARIABLES
  caches,          \* CacheStorage: sequence of [name, store], creation order
  state,           \* ServiceWorker.state of this worker
  skipWaitingFlag, \* self.skipWaiting() has been called
  warned,          \* console.warn of the install handler has run
  claimed,         \* self.clients.claim() has been called
  oldActive,       \* an older worker version still controls open clients
  deleted,         \* per run of activate, the cache names it deleted
  handlers,        \* bag of the fetch handler instances in flight
  pushLog,         \* per push event: its data, what it displayed, whether
                   \* the listener threw, whether the notification is closed
  windows          \* clients.matchAll: the window clients of this origin

vars == <<caches, state, skipWaitingFlag, warned, claimed, oldActive,
          deleted, handlers, pushLog, windows>>

Notify == <<pushLog, windows>>

(***************************************************************************)
(* Bounds of the model.                                                    *)
(***************************************************************************)
\* Handler instances in flight at once.
MaxHandlers == 2
\* Runs of the activate handler on one worker.
MaxActivations == 2
\* Push events delivered to the worker.
MaxPushes == 2
\* Window clients open at once.
MaxWindows == 2

(***************************************************************************)
(* Configuration constants of the worker.                                  *)
(***************************************************************************)
STATIC_CACHE == "luvano-static-v1"
DYNAMIC_CACHE == "luvano-dynamic-v1"

STATIC_ASSETS ==
  << "/", "/index.html", "/login.html", "/cadastro.html", "/produto.html",
     "/publicar.html", "/pagamento.html", "/perfil.html",
     "/editar-perfil.html", "/meus-produtos.html", "/vendedor.html",
     "/carteira.html", "/levantamento.html", "/favoritos.html",
     "/compras.html", "/notificacoes.html", "/conversas.html", "/chat.html",
     "/verificar.html", "/configuracoes.html", "/sobre.html", "/admin.html",
     "/admin-usuarios.html", "/admin-produtos.html",
     "/admin-pagamentos.html", "/manifest.json" >>

NETWORK_FIRST == << "supabase.co", "cdn.jsdelivr.net" >>

\* The origin the worker script is served from (self.location).
SelfProtocol == "https:"
SelfHostname == "luvano.app"

(***************************************************************************)
(* JavaScript built-ins used by the handlers.                              *)
(***************************************************************************)
\* String.prototype.startsWith
startsWith(s, p) == Len(s) >= Len(p) /\ SubSeq(s, 1, Len(p)) = p

\* String.prototype.includes (substring test)
strIncludes(s, p) ==
  \E i \in 1..(Len(s) + 1) :
    i + Len(p) - 1 <= Len(s) /\ SubSeq(s, i, i + Len(p) - 1) = p

\* Array.prototype.includes (element test)
arrIncludes(arr, x) == \E i \in 1..Len(arr) : arr[i] = x

\* URL.href of a request: the key a cache stores it under.
Href(protocol, hostname, pathname) == protocol \o "//" \o hostname \o pathname

RequestUrl(request) == Href(request.protocol, request.hostname, request.pathname)

\* new Request(path) made inside the worker resolves against self.location.
SelfUrl(pathname) == Href(SelfProtocol, SelfHostname, pathname)

(***************************************************************************)
(* Values a handler can hold.                                              *)
(***************************************************************************)
Response(s, b) == [kind |-> "Response", status |-> s, body |-> b]
undefined == [kind |-> "undefined"]
Pending == [kind |-> "pending"]
NetworkError == [kind |-> "TypeError"]

IsResponse(v) == v.kind = "Response"

\* Response.ok: status in the range 200-299.
ok(response) ==
  IsResponse(response) /\ response.status >= 200 /\ response.status <= 299

\* new Response('', { status: 503, statusText: 'Sem conexao' })
OfflineResponse == Response(503, "")

(***************************************************************************)
(* The host's CacheStorage and Cache operations.                           *)
(***************************************************************************)
EmptyStore == [k \in {} |-> undefined]

\* caches.keys()
CachesKeys(cs) == [i \in 1..Len(cs) |-> cs[i].name]

CachesHas(cs, name) == \E i \in 1..Len(cs) : cs[i].name = name

\* caches.open(name): creates the cache when it does not exist.
CachesOpen(cs, name) ==
  IF CachesHas(cs, name) THEN cs
  ELSE Append(cs, [name |-> name, store |-> EmptyStore])

\* caches.delete(name)
CachesDelete(cs, name) == SelectSeq(cs, LAMBDA c : c.name # name)

\* cache.match(url) on the cache called name.
CacheMatch(cs, name, url) ==
  IF \E i \in 1..Len(cs) : cs[i].name = name /\ url \in DOMAIN cs[i].store
  THEN LET i == CHOOSE j \in 1..Len(cs) : cs[j].name = name IN cs[i].store[url]
  ELSE undefined

\* caches.match(url): the first cache, in creation order, holding the key.
CachesMatch(cs, url) ==
  LET hits == {i \in 1..Len(cs) : url \in DOMAIN cs[i].store} IN
  IF hits = {} THEN undefined
  ELSE LET i == CHOOSE j \in hits : \A k \in hits : j <= k IN cs[i].store[url]

StorePut(store, url, response) ==
  [k \in DOMAIN store \cup {url} |-> IF k = url THEN response ELSE store[k]]

\* A put that leaves an entry already held under the key as it is.
CachePutIfAbsent(cs, name, url, response) ==
  [i \in 1..Len(cs) |->
     IF cs[i].name = name /\ url \notin DOMAIN cs[i].store
     THEN [cs[i] EXCEPT !.store = StorePut(cs[i].store, url, response)]
     ELSE cs[i]]

\* cache.put(url, response) on the cache called name.
CachePut(cs, name, url, response) ==
  [i \in 1..Len(cs) |->
     IF cs[i].name = name
     THEN [cs[i] EXCEPT !.store = StorePut(cs[i].store, url, response)]
     ELSE cs[i]]

CacheNames(cs) == {cs[i].name : i \in 1..Len(cs)}

CacheStore(cs, name) ==
  IF CachesHas(cs, name)
  THEN LET i == CHOOSE j \in 1..Len(cs) : cs[j].name = name IN cs[i].store
  ELSE EmptyStore

(***************************************************************************)
(* Inputs: what the network answers, and the cache storage the worker      *)
(* finds when it is first run.                                             *)
(***************************************************************************)
Bodies == {"a", "b"}

OkResponses == {Response(200, b) : b \in Bodies}

\* What fetch(request) settles with: a response of any status, or a
\* rejection (TypeError) on a network error.
NetOutcomes == OkResponses \cup {Response(404, "missing"), NetworkError}

\* Cache generations of an earlier release.
OLD_STATIC == "luvano-static-v0"
OLD_DYNAMIC == "luvano-dynamic-v0"

\* Nothing (a first install), or what an earlier release left behind: its
\* generations, and the dynamic generation when its name was not bumped.
InitialCacheStorages ==
  { << >>,
    << [name |-> DYNAMIC_CACHE,
        store |-> StorePut(EmptyStore, SelfUrl("/img/logo.png"), Response(200, "a"))],
       [name |-> OLD_STATIC,
        store |-> StorePut(EmptyStore, SelfUrl("/index.html"), Response(200, "a"))],
       [name |-> OLD_DYNAMIC, store |-> EmptyStore] >> }

\* What the fetches of cache.addAll settle with, one per manifest entry:
\* all ok (200, or another status of the ok range for one entry), or one
\* entry failing (network error or non-ok status).
InstallFailing == {1, 2, Len(STATIC_ASSETS)}

InstallFetches ==
  { [i \in 1..Len(STATIC_ASSETS) |-> Response(200, "a")],
    [i \in 1..Len(STATIC_ASSETS) |->
       IF i = 2 THEN Response(203, "b") ELSE Response(200, "b")] }
  \cup
  {[i \in 1..Len(STATIC_ASSETS) |->
      IF i = j THEN bad ELSE Response(200, "a")] :
        j \in InstallFailing, bad \in {NetworkError, Response(404, "missing")}}

(***************************************************************************)
(* install                                                                 *)
(***************************************************************************)
\* cache.addAll(requests): stores every response, or rejects and stores
\* nothing when one fetch fails or settles with a non-ok status.
AddAllSucceeds(fetched) == \A i \in 1..Len(STATIC_ASSETS) : ok(fetched[i])

\* addAll that stores nothing.
AddAllStoresNothing(cs, name, fetched) == cs

AddAll(cs, name, fetched) ==
  LET keys == {SelfUrl(STATIC_ASSETS[i]) : i \in 1..Len(STATIC_ASSETS)}
      resp(k) == fetched[CHOOSE i \in 1..Len(STATIC_ASSETS) :
                           SelfUrl(STATIC_ASSETS[i]) = k]
  IN [n \in 1..Len(cs) |->
        IF cs[n].name = name
        THEN [cs[n] EXCEPT !.store =
                [k \in DOMAIN cs[n].store \cup keys |->
                   IF k \in keys THEN resp(k) ELSE cs[n].store[k]]]
        ELSE cs[n]]

\* The promise chain handed to event.waitUntil: open, addAll, skipWaiting,
\* with the catch at the end of the chain.
installChain(cs, fetched) ==
  LET opened == CachesOpen(cs, STATIC_CACHE) IN
  IF AddAllSucceeds(fetched)
  THEN [caches |-> AddAll(opened, STATIC_CACHE, fetched),
        skipWaiting |-> TRUE, warned |-> FALSE, settled |-> "fulfilled"]
  ELSE [caches |-> opened,
        skipWaiting |-> FALSE, warned |-> TRUE, settled |-> "fulfilled"]

Install(fetched) ==
  /\ state = "parsed"
  /\ LET r == installChain(caches, fetched) IN
       /\ caches' = r.caches
       /\ skipWaitingFlag' = r.skipWaiting
       /\ warned' = r.warned
       /\ state' = IF r.settled = "fulfilled" THEN "installed" ELSE "redundant"
  /\ UNCHANGED <<claimed, oldActive, deleted, handlers, Notify>>

\* The clients of the older version go away: a waiting worker may activate.
OldClientsClose ==
  /\ state = "installed"
  /\ oldActive
  /\ oldActive' = FALSE
  /\ UNCHANGED <<caches, state, skipWaitingFlag, warned, claimed, deleted,
                 handlers, Notify>>

(***************************************************************************)
(* activate                                                                *)
(***************************************************************************)
\* The filter written with || : no key is kept.
activateFilterOr(keys) ==
  SelectSeq(keys, LAMBDA key : key # STATIC_CACHE \/ key # DYNAMIC_CACHE)

\* No filter: every cache is deleted.
activateFilterNone(keys) == keys

\* The filter that spares the static generation only.
activateFilterStaticOnly(keys) ==
  SelectSeq(keys, LAMBDA key : key # STATIC_CACHE)

\* keys.filter(key => key !== STATIC_CACHE && key !== DYNAMIC_CACHE)
activateFilter(keys) ==
  SelectSeq(keys, LAMBDA key : key # STATIC_CACHE /\ key # DYNAMIC_CACHE)

RECURSIVE DeleteAll(_, _)
DeleteAll(cs, names) ==
  IF names = << >> THEN cs
  ELSE DeleteAll(CachesDelete(cs, Head(names)), Tail(names))

\* The listener: every key the filter keeps is deleted, clients are claimed.
activateListener ==
  /\ LET doomed == activateFilter(CachesKeys(caches)) IN
       /\ caches' = DeleteAll(caches, doomed)
       /\ deleted' = Append(deleted, {doomed[i] : i \in 1..Len(doomed)})
  /\ claimed' = TRUE
  /\ state' = "activated"
  /\ oldActive' = FALSE
  /\ UNCHANGED <<skipWaitingFlag, warned, handlers, Notify>>

\* The host activates a waiting worker once skipWaiting was called or no
\* older version controls a client.
CanActivate == state = "installed" /\ (skipWaitingFlag \/ ~oldActive)

Activate ==
  /\ CanActivate
  /\ activateListener

\* The activate event dispatched again on the active worker.
Reactivate ==
  /\ state = "activated"
  /\ Len(deleted) < MaxActivations
  /\ activateListener

(***************************************************************************)
(* fetch: the dispatcher                                                   *)
(***************************************************************************)
NoRequest ==
  [method |-> "", protocol |-> "", hostname |-> "", pathname |-> "",
   destination |-> ""]

\* A handler instance: where it stands (pc), what it has read from the
\* caches (cached), what its fetch settled with (response), what the promise
\* given to respondWith resolved with (result), how many fetches it issued,
\* the state of its un-awaited cache.put, whether its result came from
\* offlineFallback, and whether the dynamic generation held a copy of the
\* request when staleWhileRevalidate was called.
Fresh ==
  [pc |-> "start", request |-> NoRequest, strategy |-> "none",
   responded |-> FALSE, cached |-> Pending, response |-> Pending,
   result |-> Pending, fetches |-> 0, put |-> "none", viaFallback |-> FALSE,
   hadCopy |-> FALSE, prior |-> Pending]

\* Route with the manifest test made before the network-first test.
RouteStaticBeforeNetworkFirst(request) ==
  IF request.method # "GET" THEN "passthrough"
  ELSE IF ~startsWith(request.protocol, "http") THEN "passthrough"
  ELSE IF arrIncludes(STATIC_ASSETS, request.pathname) THEN "cacheFirst"
  ELSE IF \E i \in 1..Len(NETWORK_FIRST) :
            strIncludes(request.hostname, NETWORK_FIRST[i])
       THEN "networkFirst"
  ELSE IF request.destination = "image" THEN "staleWhileRevalidate"
  ELSE "networkFirst"

\* The listener's chain of early returns: the strategy a request is given.
Route(request) ==
  IF request.method # "GET" THEN "passthrough"
  ELSE IF ~startsWith(request.protocol, "http") THEN "passthrough"
  ELSE IF \E i \in 1..Len(NETWORK_FIRST) :
            strIncludes(request.hostname, NETWORK_FIRST[i])
       THEN "networkFirst"
  ELSE IF arrIncludes(STATIC_ASSETS, request.pathname) THEN "cacheFirst"
  ELSE IF request.destination = "image" THEN "staleWhileRevalidate"
  ELSE "networkFirst"

\* The listener, run to the first await of the strategy it calls:
\* cacheFirst awaits caches.match, networkFirst has issued its fetch,
\* staleWhileRevalidate awaits caches.open.
fetchListener(request) ==
  LET s == Route(request)
      h == [Fresh EXCEPT !.request = request, !.strategy = s]
  IN CASE s = "passthrough" -> [h EXCEPT !.pc = "done"]
       [] s = "cacheFirst" -> [h EXCEPT !.pc = "cf_match", !.responded = TRUE]
       [] s = "networkFirst" ->
            [h EXCEPT !.pc = "nf_fetch", !.responded = TRUE, !.fetches = 1]
       [] s = "staleWhileRevalidate" ->
            [h EXCEPT !.pc = "swr_open", !.responded = TRUE]

(***************************************************************************)
(* offlineFallback                                                         *)
(***************************************************************************)
\* For a document the function returns the promise of caches.match, which
\* the calling async function then resolves with; otherwise the 503.
offlineFallback(h) ==
  IF h.request.destination = "document"
  THEN [h EXCEPT !.pc = "fb_match", !.viaFallback = TRUE]
  ELSE [h EXCEPT !.pc = "done", !.viaFallback = TRUE,
                 !.result = OfflineResponse]

\* caches.match('/index.html') settles: the entry, or undefined.
offlineFallbackMatch(h, cs) ==
  [h EXCEPT !.pc = "done", !.result = CachesMatch(cs, SelfUrl("/index.html"))]

(***************************************************************************)
(* cacheFirst                                                              *)
(***************************************************************************)
\* const cached = await caches.match(request); if (cached) return cached;
\* otherwise the fetch is issued.
cacheFirstLookup(h, cs) ==
  LET c == CachesMatch(cs, RequestUrl(h.request)) IN
  IF c # undefined
  THEN [h EXCEPT !.cached = c, !.result = c, !.pc = "done"]
  ELSE [h EXCEPT !.cached = c, !.pc = "cf_fetch", !.fetches = @ + 1]

\* cacheFirst that fetches a second time after a network error.
cacheFirstFetchedRetries(h, outcome) ==
  IF outcome = NetworkError
  THEN IF h.fetches < 2
       THEN [h EXCEPT !.fetches = @ + 1]
       ELSE offlineFallback([h EXCEPT !.response = outcome])
  ELSE IF ok(outcome)
  THEN [h EXCEPT !.response = outcome, !.pc = "cf_open"]
  ELSE [h EXCEPT !.response = outcome, !.result = outcome, !.pc = "done"]

\* await fetch(request) settles.
cacheFirstFetched(h, outcome) ==
  IF outcome = NetworkError
  THEN offlineFallback([h EXCEPT !.response = outcome])
  ELSE IF ok(outcome)
  THEN [h EXCEPT !.response = outcome, !.pc = "cf_open"]
  ELSE [h EXCEPT !.response = outcome, !.result = outcome, !.pc = "done"]

\* await caches.open settles: cache.put is issued, not awaited; return.
strategyStore(h) ==
  [h EXCEPT !.put = "pending", !.result = h.response, !.pc = "done"]

(***************************************************************************)
(* networkFirst                                                            *)
(***************************************************************************)
\* networkFirst that treats a non-ok status like a network error.
networkFirstFetchedNonOkToCache(h, outcome) ==
  IF ok(outcome)
  THEN [h EXCEPT !.response = outcome, !.pc = "nf_open"]
  ELSE [h EXCEPT !.response = outcome, !.pc = "nf_match"]

\* networkFirst without the response.ok test before the store.
networkFirstFetchedStoresAny(h, outcome) ==
  IF outcome = NetworkError
  THEN [h EXCEPT !.response = outcome, !.pc = "nf_match"]
  ELSE [h EXCEPT !.response = outcome, !.pc = "nf_open"]

\* await fetch(request) settles: the response whatever its status (stored
\* after caches.open when ok), or the catch block.
networkFirstFetched(h, outcome) ==
  IF outcome = NetworkError
  THEN [h EXCEPT !.response = outcome, !.pc = "nf_match"]
  ELSE IF ok(outcome)
  THEN [h EXCEPT !.response = outcome, !.pc = "nf_open"]
  ELSE [h EXCEPT !.response = outcome, !.result = outcome, !.pc = "done"]

\* A catch block that goes to offlineFallback without looking at the caches.
networkFirstCatchSkipsCaches(h, cs) ==
  offlineFallback([h EXCEPT !.cached = undefined])

\* catch: const cached = await caches.match(request);
\* return cached || offlineFallback(request);
networkFirstCatch(h, cs) ==
  LET c == CachesMatch(cs, RequestUrl(h.request)) IN
  IF c # undefined
  THEN [h EXCEPT !.cached = c, !.result = c, !.pc = "done"]
  ELSE offlineFallback([h EXCEPT !.cached = c])

(***************************************************************************)
(* staleWhileRevalidate                                                    *)
(***************************************************************************)
\* staleWhileRevalidate that awaits the fetch before looking at cached.
staleWhileRevalidateLookupAwaitsFetch(h, cs) ==
  LET c == CacheMatch(cs, DYNAMIC_CACHE, RequestUrl(h.request)) IN
  [h EXCEPT !.cached = c, !.fetches = @ + 1, !.pc = "swr_fetch"]

\* staleWhileRevalidate that issues no fetch when it has a cached copy.
staleWhileRevalidateLookupNoRevalidate(h, cs) ==
  LET c == CacheMatch(cs, DYNAMIC_CACHE, RequestUrl(h.request)) IN
  IF c # undefined
  THEN [h EXCEPT !.cached = c, !.result = c, !.pc = "done"]
  ELSE [h EXCEPT !.cached = c, !.fetches = @ + 1, !.pc = "swr_fetch"]

\* const cached = await cache.match(request); the fetch is issued; then
\* return cached || await fetchPromise || offlineFallback(request).
staleWhileRevalidateLookup(h, cs) ==
  LET c == CacheMatch(cs, DYNAMIC_CACHE, RequestUrl(h.request)) IN
  IF c # undefined
  THEN [h EXCEPT !.cached = c, !.fetches = @ + 1, !.result = c, !.pc = "swr_bg"]
  ELSE [h EXCEPT !.cached = c, !.fetches = @ + 1, !.pc = "swr_fetch"]

\* staleWhileRevalidate that returns the fetched response only when ok.
staleWhileRevalidateFetchedOkOnly(h, outcome) ==
  LET g == [h EXCEPT !.response = outcome,
                     !.put = IF ok(outcome) THEN "pending" ELSE @]
  IN IF h.pc = "swr_bg" THEN [g EXCEPT !.pc = "done"]
     ELSE IF ~ok(outcome) THEN offlineFallback(g)
     ELSE [g EXCEPT !.result = outcome, !.pc = "done"]

\* The fetch settles: then(response => { if (response.ok) cache.put(...);
\* return response }).catch(() => null), and the return statement when it
\* was waiting for it.
staleWhileRevalidateFetched(h, outcome) ==
  LET g == [h EXCEPT !.response = outcome,
                     !.put = IF ok(outcome) THEN "pending" ELSE @]
  IN IF h.pc = "swr_bg" THEN [g EXCEPT !.pc = "done"]
     ELSE IF outcome = NetworkError THEN offlineFallback(g)
     ELSE [g EXCEPT !.result = outcome, !.pc = "done"]

\* Every strategy writing to the dynamic generation.
PutCacheAlwaysDynamic(h) == DYNAMIC_CACHE

\* The generation a strategy's cache.put writes to.
PutCache(h) ==
  IF h.strategy = "cacheFirst" THEN STATIC_CACHE ELSE DYNAMIC_CACHE

(***************************************************************************)
(* Requests the fetch events carry.                                        *)
(***************************************************************************)
Req(method, protocol, hostname, pathname, destination) ==
  [method |-> method, protocol |-> protocol, hostname |-> hostname,
   pathname |-> pathname, destination |-> destination]

Requests ==
  { Req("GET", "https:", "luvano.app", "/index.html", "document"),
    Req("GET", "https:", "luvano.app", "/loja.html", "document"),
    Req("GET", "https:", "luvano.app", "/img/logo.png", "image"),
    Req("GET", "https:", "luvano.app", "/img/logo.png", ""),
    Req("GET", "https:", "fotos.example", "/manifest.json", "image"),
    Req("POST", "https:", "luvano.app", "/index.html", "") }

Methods == {"GET", "POST", "HEAD"}
Protocols == {"http:", "https:", "chrome-extension:", "data:"}
Hostnames ==
  {"luvano.app", "xyz.supabase.co", "cdn.jsdelivr.net", "jsdelivr.net",
   "supabase.co.evil.example", "fotos.example"}
Pathnames ==
  {"/", "/index.html", "/index.htm", "/INDEX.HTML", "/admin.html/x",
   "/manifest.json", "/img/logo.png"}
Destinations == {"", "image", "document", "script"}

AllRequests ==
  { Req(m, p, h, a, d) :
      m \in Methods, p \in Protocols, h \in Hostnames, a \in Pathnames,
      d \in Destinations }

(***************************************************************************)
(* Actions of the fetch handlers.                                          *)
(***************************************************************************)
Lifecycle == <<state, skipWaitingFlag, warned, claimed, oldActive, deleted>>

InFlight == BagToSet(handlers)

\* The bag with instance h having become g.
Step(h, g) == (handlers (-) SetToBag({h})) (+) SetToBag({g})

\* A fetch event reaches the active worker and gets a handler instance.
FetchEvent(request) ==
  /\ state = "activated"
  /\ BagCardinality(handlers) < MaxHandlers
  /\ handlers' = handlers (+) SetToBag({
       LET l == fetchListener(request) IN
       [l EXCEPT !.hadCopy =
          /\ l.strategy = "staleWhileRevalidate"
          /\ CacheMatch(caches, DYNAMIC_CACHE, RequestUrl(request)) # undefined]})
  /\ UNCHANGED <<caches, Lifecycle, Notify>>

CacheFirstLookup(h) ==
  /\ h.pc = "cf_match"
  /\ handlers' = Step(h, cacheFirstLookup(h, caches))
  /\ UNCHANGED <<caches, Lifecycle, Notify>>

CacheFirstFetched(h, outcome) ==
  /\ h.pc = "cf_fetch"
  /\ handlers' = Step(h, cacheFirstFetched(h, outcome))
  /\ UNCHANGED <<caches, Lifecycle, Notify>>

CacheFirstStore(h) ==
  /\ h.pc = "cf_open"
  /\ caches' = CachesOpen(caches, STATIC_CACHE)
  /\ handlers' = Step(h, strategyStore(h))
  /\ UNCHANGED <<Lifecycle, Notify>>

NetworkFirstFetched(h, outcome) ==
  /\ h.pc = "nf_fetch"
  /\ handlers' = Step(h, networkFirstFetched(h, outcome))
  /\ UNCHANGED <<caches, Lifecycle, Notify>>

NetworkFirstStore(h) ==
  /\ h.pc = "nf_open"
  /\ caches' = CachesOpen(caches, DYNAMIC_CACHE)
  /\ handlers' = Step(h, strategyStore(h))
  /\ UNCHANGED <<Lifecycle, Notify>>

NetworkFirstCatch(h) ==
  /\ h.pc = "nf_match"
  /\ handlers' = Step(h, networkFirstCatch(h, caches))
  /\ UNCHANGED <<caches, Lifecycle, Notify>>

StaleWhileRevalidateOpen(h) ==
  /\ h.pc = "swr_open"
  /\ caches' = CachesOpen(caches, DYNAMIC_CACHE)
  /\ handlers' = Step(h, [h EXCEPT !.pc = "swr_match"])
  /\ UNCHANGED <<Lifecycle, Notify>>

StaleWhileRevalidateLookup(h) ==
  /\ h.pc = "swr_match"
  /\ handlers' = Step(h, staleWhileRevalidateLookup(h, caches))
  /\ UNCHANGED <<caches, Lifecycle, Notify>>

StaleWhileRevalidateFetched(h, outcome) ==
  /\ h.pc \in {"swr_fetch", "swr_bg"}
  /\ handlers' = Step(h, staleWhileRevalidateFetched(h, outcome))
  /\ UNCHANGED <<caches, Lifecycle, Notify>>

OfflineFallbackMatch(h) ==
  /\ h.pc = "fb_match"
  /\ handlers' = Step(h, offlineFallbackMatch(h, caches))
  /\ UNCHANGED <<caches, Lifecycle, Notify>>

\* The un-awaited cache.put(request, response.clone()) takes effect.
PutComplete(h) ==
  /\ h.put = "pending"
  /\ caches' = CachePut(caches, PutCache(h), RequestUrl(h.request), h.response)
  /\ handlers' = Step(h, [h EXCEPT !.put = "done"])
  /\ UNCHANGED <<Lifecycle, Notify>>

\* The event is over: its promise has settled and no work is left.
Retire(h) ==
  /\ h.pc = "done"
  /\ h.put # "pending"
  /\ handlers' = handlers (-) SetToBag({h})
  /\ UNCHANGED <<caches, Lifecycle, Notify>>

(***************************************************************************)
(* Specifications.                                                         *)
(***************************************************************************)
Init ==
  /\ caches \in InitialCacheStorages
  /\ state = "parsed"
  /\ skipWaitingFlag = FALSE
  /\ warned = FALSE
  /\ claimed = FALSE
  /\ oldActive = (caches # << >>)
  /\ deleted = << >>
  /\ handlers = EmptyBag
  /\ pushLog = << >>
  /\ windows = << >>

Next ==
  \/ \E fetched \in InstallFetches : Install(fetched)
  \/ OldClientsClose
  \/ Activate
  \/ \E request \in Requests : FetchEvent(request)
  \/ \E h \in InFlight : CacheFirstLookup(h)
  \/ \E h \in InFlight, outcome \in NetOutcomes : CacheFirstFetched(h, outcome)
  \/ \E h \in InFlight : CacheFirstStore(h)
  \/ \E h \in InFlight, outcome \in NetOutcomes : NetworkFirstFetched(h, outcome)
  \/ \E h \in InFlight : NetworkFirstStore(h)
  \/ \E h \in InFlight : NetworkFirstCatch(h)
  \/ \E h \in InFlight : StaleWhileRevalidateOpen(h)
  \/ \E h \in InFlight : StaleWhileRevalidateLookup(h)
  \/ \E h \in InFlight, outcome \in NetOutcomes :
       StaleWhileRevalidateFetched(h, outcome)
  \/ \E h \in InFlight : OfflineFallbackMatch(h)
  \/ \E h \in InFlight : PutComplete(h)
  \/ \E h \in InFlight : Retire(h)

Spec == Init /\ [][Next]_vars

\* The same worker when the activate event may be dispatched more than once.
NextReactivate == Next \/ Reactivate

SpecReactivate == Init /\ [][NextReactivate]_vars

\* The dispatcher alone: every fetch event the host can deliver, each to a
\* fresh handler instance taken up to its strategy's first await.
Dispatch(request) ==
  /\ state = "activated"
  /\ handlers = EmptyBag
  /\ handlers' = SetToBag({fetchListener(request)})
  /\ UNCHANGED <<caches, Lifecycle, Notify>>

NextRoute ==
  \/ \E fetched \in InstallFetches : Install(fetched)
  \/ OldClientsClose
  \/ Activate
  \/ \E request \in AllRequests : Dispatch(request)
  \/ \E h \in InFlight : Retire(h)

SpecRoute == Init /\ [][NextRoute]_vars

\* Calls that race for one cache key: the fetch events of three requests, two
\* of which share the key /img/logo.png. Each new call notes in "prior" the
\* ok live response with which a call of the same request still in flight
\* (its put not yet seen to complete) had already been resolved, if any.
RaceRequests ==
  { Req("GET", "https:", "luvano.app", "/index.html", "document"),
    Req("GET", "https:", "luvano.app", "/img/logo.png", "image"),
    Req("GET", "https:", "luvano.app", "/img/logo.png", "") }

ResolvedLive(request) ==
  { g.result : g \in { f \in InFlight :
      /\ f.request = request
      /\ f.strategy \in {"cacheFirst", "networkFirst"}
      /\ f.pc = "done"
      /\ ok(f.response)
      /\ f.result = f.response } }

FetchEventAfter(request) ==
  /\ state = "activated"
  /\ BagCardinality(handlers) < MaxHandlers
  /\ \E p \in (IF ResolvedLive(request) = {} THEN {Pending}
                ELSE ResolvedLive(request)) :
       handlers' = handlers (+) SetToBag({
         LET l == fetchListener(request) IN
         [l EXCEPT !.hadCopy =
            /\ l.strategy = "staleWhileRevalidate"
            /\ CacheMatch(caches, DYNAMIC_CACHE, RequestUrl(request)) # undefined,
                   !.prior = p]})
  /\ UNCHANGED <<caches, Lifecycle, Notify>>

NextRace ==
  \/ \E fetched \in InstallFetches : Install(fetched)
  \/ OldClientsClose
  \/ Activate
  \/ \E request \in RaceRequests : FetchEventAfter(request)
  \/ \E h \in InFlight : CacheFirstLookup(h)
  \/ \E h \in InFlight, outcome \in NetOutcomes : CacheFirstFetched(h, outcome)
  \/ \E h \in InFlight : CacheFirstStore(h)
  \/ \E h \in InFlight, outcome \in NetOutcomes : NetworkFirstFetched(h, outcome)
  \/ \E h \in InFlight : NetworkFirstStore(h)
  \/ \E h \in InFlight : NetworkFirstCatch(h)
  \/ \E h \in InFlight : StaleWhileRevalidateOpen(h)
  \/ \E h \in InFlight : StaleWhileRevalidateLookup(h)
  \/ \E h \in InFlight, outcome \in NetOutcomes :
       StaleWhileRevalidateFetched(h, outcome)
  \/ \E h \in InFlight : OfflineFallbackMatch(h)
  \/ \E h \in InFlight : PutComplete(h)
  \/ \E h \in InFlight : Retire(h)

SpecRace == Init /\ [][NextRace]_vars

(***************************************************************************)
(* push, notificationclick, sync                                           *)
(***************************************************************************)
\* What event.data.json() gives: an object with string fields, another JSON
\* value, or a SyntaxError thrown.
JsonObject(fields) == [type |-> "object", fields |-> fields]
JsonNull == [type |-> "null"]
JsonNumber == [type |-> "number"]
SyntaxError == [type |-> "SyntaxError"]

\* event.data of a push event: null, or a message with its text() and the
\* outcome of its json().
NoData == [kind |-> "null"]
PushMessageData(text, json) == [kind |-> "PushMessageData", text |-> text, json |-> json]

PushData ==
  { NoData,
    PushMessageData("{title:Order shipped,body:Your item is on its way,url:/compras.html}",
      JsonObject([title |-> "Order shipped", body |-> "Your item is on its way",
                  url |-> "/compras.html"])),
    PushMessageData("{title:,body:Promo,url:/loja.html,tag:promo}",
      JsonObject([title |-> "", body |-> "Promo", url |-> "/loja.html",
                  tag |-> "promo"])),
    PushMessageData("{}", JsonObject(<< >>)),
    PushMessageData("42", JsonNumber),
    PushMessageData("null", JsonNull),
    PushMessageData("Promo hoje", SyntaxError) }

\* data.name || fallback, for data other than null: a missing property, a
\* property of a number and an empty string are falsy.
OrDefault(data, name, fallback) ==
  IF data.type = "object" /\ name \in DOMAIN data.fields
  THEN IF data.fields[name] # "" THEN data.fields[name] ELSE fallback
  ELSE fallback

\* The literals of the push listener; the source's default title starts with
\* a shopping-bags emoji and its default body has a cedilla and a tilde.
CatchTitle == "Luvano"
DefaultTitle == "(shopping bags) Luvano"
DefaultBody == "Nova notificacao"
DefaultUrl == "/notificacoes.html"
DefaultTag == "luvano-notif"

\* The push listener: what showNotification was called with (at most once)
\* and whether the listener threw.
pushListener(data) ==
  IF data = NoData THEN [shown |-> << >>, threw |-> FALSE]
  ELSE
    LET parsed == IF data.json = SyntaxError
                  THEN JsonObject([title |-> CatchTitle, body |-> data.text])
                  ELSE data.json
    IN IF parsed = JsonNull
       THEN [shown |-> << >>, threw |-> TRUE]
       ELSE [shown |-> << [title |-> OrDefault(parsed, "title", DefaultTitle),
                           body |-> OrDefault(parsed, "body", DefaultBody),
                           data |-> [url |-> OrDefault(parsed, "url", DefaultUrl)],
                           tag |-> OrDefault(parsed, "tag", DefaultTag),
                           renotify |-> TRUE] >>,
             threw |-> FALSE]

Push(data) ==
  /\ state = "activated"
  /\ Len(pushLog) < MaxPushes
  /\ pushLog' = Append(pushLog,
       [data |-> data, shown |-> pushListener(data).shown,
        threw |-> pushListener(data).threw, closed |-> FALSE])
  /\ UNCHANGED <<caches, Lifecycle, handlers, windows>>

\* A window client: its URL and whether it has the focus.
WindowClient(url, focused) == [url |-> url, focused |-> focused]

SelfOrigin == SelfProtocol \o "//" \o SelfHostname

\* client.navigate(url); client.focus() on the client at position i.
NavigateAndFocus(ws, i, url) ==
  [j \in 1..Len(ws) |->
     IF j = i THEN WindowClient(SelfUrl(url), TRUE)
     ELSE WindowClient(ws[j].url, FALSE)]

\* clients.openWindow(url).
OpenWindow(ws, url) ==
  <<WindowClient(SelfUrl(url), TRUE)>>
    \o [j \in 1..Len(ws) |-> WindowClient(ws[j].url, FALSE)]

\* A listener that opens a window without looking at the client list.
notificationclickListenerAlwaysOpens(notification, action, ws) ==
  IF action = "fechar" THEN ws
  ELSE OpenWindow(ws, IF notification.data.url # "" THEN notification.data.url
                      ELSE DefaultUrl)

\* The notificationclick listener after event.notification.close(): the
\* client list it leaves.
notificationclickListener(notification, action, ws) ==
  IF action = "fechar" THEN ws
  ELSE
    LET url == IF notification.data.url # "" THEN notification.data.url
               ELSE DefaultUrl
        hits == {i \in 1..Len(ws) : strIncludes(ws[i].url, SelfOrigin)}
    IN IF hits # {}
       THEN NavigateAndFocus(ws, CHOOSE i \in hits : \A k \in hits : i <= k, url)
       ELSE OpenWindow(ws, url)

\* event.action: a click on the body, or on one of the two action buttons.
NotificationActions == {"", "ver", "fechar"}

NotificationClick(i, action) ==
  /\ i \in 1..Len(pushLog)
  /\ pushLog[i].shown # << >>
  /\ ~pushLog[i].closed
  /\ pushLog' = [pushLog EXCEPT ![i].closed = TRUE]
  /\ windows' = notificationclickListener(pushLog[i].shown[1], action, windows)
  /\ UNCHANGED <<caches, Lifecycle, handlers>>

\* The sync listener: sincronizarDados only writes to the console.
SyncTags == {"luvano-sync", "outro"}

\* async function sincronizarDados(): a console.log, no state of the worker.
sincronizarDados == UNCHANGED vars

Sync(tag) ==
  /\ state = "activated"
  /\ IF tag = "luvano-sync" THEN sincronizarDados ELSE UNCHANGED vars

\* The user opens a page of the site in a new window, or closes a window.
WindowPaths == {"/index.html", "/loja.html"}

WindowOpens(pathname) ==
  /\ Len(windows) < MaxWindows
  /\ windows' = OpenWindow(windows, pathname)
  /\ UNCHANGED <<caches, Lifecycle, handlers, pushLog>>

WindowCloses(i) ==
  /\ i \in 1..Len(windows)
  /\ windows' = [j \in 1..(Len(windows) - 1) |->
                   IF j < i THEN windows[j] ELSE windows[j + 1]]
  /\ UNCHANGED <<caches, Lifecycle, handlers, pushLog>>

NextNotify ==
  \/ \E fetched \in InstallFetches : Install(fetched)
  \/ OldClientsClose
  \/ Activate
  \/ \E data \in PushData : Push(data)
  \/ \E i \in 1..MaxPushes, action \in NotificationActions :
       NotificationClick(i, action)
  \/ \E tag \in SyncTags : Sync(tag)
  \/ \E pathname \in WindowPaths : WindowOpens(pathname)
  \/ \E i \in 1..MaxWindows : WindowCloses(i)

SpecNotify == Init /\ [][NextNotify]_vars

\* All six listeners together: install, activate (dispatched again as
\* well), fetch (one call at a time), push, notificationclick and sync.
FetchEventAlone(request) ==
  /\ handlers = EmptyBag
  /\ FetchEvent(request)

EventPushData ==
  { NoData,
    PushMessageData("{title:Order shipped,body:Your item is on its way,url:/compras.html}",
      JsonObject([title |-> "Order shipped", body |-> "Your item is on its way",
                  url |-> "/compras.html"])) }

NextEvents ==
  \/ \E fetched \in InstallFetches : Install(fetched)
  \/ OldClientsClose
  \/ Activate
  \/ Reactivate
  \/ \E request \in RaceRequests : FetchEventAlone(request)
  \/ \E h \in InFlight : CacheFirstLookup(h)
  \/ \E h \in InFlight, outcome \in NetOutcomes : CacheFirstFetched(h, outcome)
  \/ \E h \in InFlight : CacheFirstStore(h)
  \/ \E h \in InFlight, outcome \in NetOutcomes : NetworkFirstFetched(h, outcome)
  \/ \E h \in InFlight : NetworkFirstStore(h)
  \/ \E h \in InFlight : NetworkFirstCatch(h)
  \/ \E h \in InFlight : StaleWhileRevalidateOpen(h)
  \/ \E h \in InFlight : StaleWhileRevalidateLookup(h)
  \/ \E h \in InFlight, outcome \in NetOutcomes :
       StaleWhileRevalidateFetched(h, outcome)
  \/ \E h \in InFlight : OfflineFallbackMatch(h)
  \/ \E h \in InFlight : PutComplete(h)
  \/ \E h \in InFlight : Retire(h)
  \/ \E data \in EventPushData : Push(data)
  \/ \E i \in 1..MaxPushes, action \in NotificationActions :
       NotificationClick(i, action)
  \/ \E tag \in SyncTags : Sync(tag)

SpecEvents == Init /\ [][NextEvents]_vars

(***************************************************************************)
(* Properties.                                                             *)
(***************************************************************************)
HttpScheme(r) == r.protocol \in {"http:", "https:"}

NetworkFirstHost(r) ==
  \/ strIncludes(r.hostname, "supabase.co")
  \/ strIncludes(r.hostname, "cdn.jsdelivr.net")

ManifestPaths == {STATIC_ASSETS[i] : i \in 1..Len(STATIC_ASSETS)}

\* A request of the worker's own origin for a path of the manifest.
SelfManifestRequest(r) ==
  /\ r.protocol = SelfProtocol
  /\ r.hostname = SelfHostname
  /\ r.pathname \in ManifestPaths

HeldAnywhere(cs, url) == \E i \in 1..Len(cs) : url \in DOMAIN cs[i].store

\* C1: every fetch event gets exactly the outcome of the first matching
\* rule: not GET or not http(s) -> not intercepted (no respondWith, no cache
\* access, no fetch); network-first host -> networkFirst; manifest path ->
\* cacheFirst; image -> staleWhileRevalidate; otherwise networkFirst.
RoutingContract ==
  \A h \in InFlight :
    LET r == h.request IN
    IF r.method # "GET" \/ ~HttpScheme(r)
    THEN /\ h.strategy = "passthrough"
         /\ ~h.responded
         /\ h.pc = "done"
         /\ h.fetches = 0
         /\ h.cached = Pending
         /\ h.put = "none"
    ELSE /\ h.responded
         /\ h.strategy =
              IF NetworkFirstHost(r) THEN "networkFirst"
              ELSE IF r.pathname \in ManifestPaths THEN "cacheFirst"
              ELSE IF r.destination = "image" THEN "staleWhileRevalidate"
              ELSE "networkFirst"

\* C1 witness: an image request for a manifest path on a network-first host
\* was given networkFirst.
RoutingOverlapReached ==
  \E h \in InFlight :
    /\ h.request.method = "GET" /\ HttpScheme(h.request)
    /\ NetworkFirstHost(h.request)
    /\ h.request.pathname \in ManifestPaths
    /\ h.request.destination = "image"
    /\ h.strategy = "networkFirst"

\* C2: a staleWhileRevalidate call that found the dynamic generation holding
\* a copy when it was called is resolved with the copy its lookup read as
\* soon as the lookup is over, whatever its fetch does or has not yet done.
StaleCopyServedWithoutNetwork ==
  \A h \in InFlight :
    (h.strategy = "staleWhileRevalidate" /\ h.hadCopy
       /\ h.pc \notin {"swr_open", "swr_match"})
    => /\ IsResponse(h.cached)
       /\ h.result = h.cached

\* C2 witness: such a call is resolved while its fetch has not settled.
StaleCopyServedWhileFetchPending ==
  \E h \in InFlight :
    /\ h.strategy = "staleWhileRevalidate" /\ h.hadCopy
    /\ h.pc = "swr_bg"
    /\ h.response = Pending
    /\ IsResponse(h.result)

\* C3: a networkFirst call whose fetch settled with a response returns that
\* response and never reads a cache; it reads the caches only after its
\* fetch was rejected with a network error.
NetworkFirstPrefersLive ==
  \A h \in InFlight :
    h.strategy = "networkFirst" =>
      /\ IsResponse(h.response) =>
           /\ h.cached = Pending
           /\ ~h.viaFallback
           /\ h.pc = "done" => h.result = h.response
      /\ h.cached # Pending => h.response = NetworkError
      /\ h.pc = "nf_match" => h.response = NetworkError

\* C3 witness: a networkFirst call returned the live response while a cache
\* holds a different entry under the same key.
LiveResponseOverCachedEntry ==
  \E h \in InFlight :
    /\ h.strategy = "networkFirst"
    /\ h.pc = "done"
    /\ IsResponse(h.response)
    /\ h.result = h.response
    /\ IsResponse(CachesMatch(caches, RequestUrl(h.request)))
    /\ CachesMatch(caches, RequestUrl(h.request)) # h.result

\* C4 as stated: once install has run, a cacheFirst call for a manifest path
\* issues no fetch and resolves with the stored status-200 response.
CacheFirstOfflineAfterInstall ==
  \A h \in InFlight :
    (h.strategy = "cacheFirst" /\ SelfManifestRequest(h.request)
       /\ h.pc # "cf_match")
    => /\ h.fetches = 0
       /\ IsResponse(h.result)
       /\ h.result.status = 200
       /\ h.result = CacheMatch(caches, STATIC_CACHE, RequestUrl(h.request))

\* C4 amended: once an install whose addAll succeeded has run, a cacheFirst
\* call for a manifest path issues no fetch and resolves with the response
\* install stored, which has an ok status.
CacheFirstOfflineAfterPopulatingInstall ==
  \A h \in InFlight :
    (h.strategy = "cacheFirst" /\ SelfManifestRequest(h.request)
       /\ ~warned /\ h.pc # "cf_match")
    => /\ h.fetches = 0
       /\ ok(h.result)
       /\ h.result = CacheMatch(caches, STATIC_CACHE, RequestUrl(h.request))

\* C4 witness: a cacheFirst call for a manifest path resolved from the
\* static generation without a fetch.
ManifestPathServedFromStatic ==
  \E h \in InFlight :
    /\ h.strategy = "cacheFirst" /\ SelfManifestRequest(h.request)
    /\ ~warned
    /\ h.pc = "done"
    /\ h.fetches = 0
    /\ ok(h.result)

\* C5 as stated: offlineFallback yields the cached root document for a
\* document request, and the empty 503 response in every other case.
OfflineFallbackContract ==
  \A h \in InFlight :
    (h.viaFallback /\ h.pc = "done") =>
      \/ h.result = OfflineResponse
      \/ h.request.destination = "document" /\ IsResponse(h.result)

\* C6 as stated: every strategy call resolves with a response object.
StrategiesResolveWithResponse ==
  \A h \in InFlight :
    (h.responded /\ h.pc = "done") => IsResponse(h.result)

Current == {STATIC_CACHE, DYNAMIC_CACHE}

\* C7: a run of activate deletes exactly the generations whose name is
\* neither current name and leaves the current ones and their contents
\* alone; on the active worker no other name exists, and exactly one static
\* generation, the current one.
ActivateKeepsOnlyCurrent ==
  /\ [][Activate =>
          /\ CacheNames(caches') = CacheNames(caches) \cap Current
          /\ deleted' = Append(deleted, CacheNames(caches) \ Current)
          /\ \A n \in Current : CacheStore(caches', n) = CacheStore(caches, n)]_vars
  /\ [](state = "activated" =>
          /\ CacheNames(caches) \subseteq Current
          /\ {n \in CacheNames(caches) : startsWith(n, "luvano-static")}
               = {STATIC_CACHE})

\* C7 witness: the worker is active, the generations of the earlier release
\* were deleted and both current generations exist.
OldGenerationsDeleted ==
  /\ state = "activated"
  /\ deleted = << {OLD_STATIC, OLD_DYNAMIC} >>
  /\ CacheNames(caches) = Current

\* C8: the activate handler run again on the active worker deletes nothing
\* and leaves the generations and their contents as they were.
ActivateIdempotent ==
  [][Reactivate =>
       /\ caches' = caches
       /\ deleted' = Append(deleted, {})]_vars

\* C8 witness: activate has run twice, the first run deleted generations,
\* the second none, and a fetch had written to the dynamic generation.
ReactivatedWithoutDeletion ==
  /\ Len(deleted) = 2
  /\ deleted[1] # {}
  /\ deleted[2] = {}
  /\ CacheMatch(caches, DYNAMIC_CACHE, SelfUrl("/loja.html")) # undefined

\* C9 as stated: after an install whose population failed the worker is
\* where a successful install leaves it: skipWaiting was called and the host
\* may activate it.
FailedInstallProceedsLikeSuccess ==
  (warned /\ state = "installed") => (skipWaitingFlag /\ CanActivate)

\* C10: a cacheFirst call issues no fetch when some generation holds the
\* request at its lookup and exactly one otherwise, and never a second.
CacheFirstAtMostOneFetch ==
  /\ [](\A h \in InFlight :
          h.strategy = "cacheFirst" =>
            /\ h.fetches <= 1
            /\ h.pc # "cf_match" =>
                 h.fetches = IF IsResponse(h.cached) THEN 0 ELSE 1)
  /\ [][\A h \in InFlight :
          CacheFirstLookup(h) =>
            \E g \in BagToSet(handlers') :
              /\ g.request = h.request
              /\ g.pc # "cf_match"
              /\ g.fetches =
                   IF HeldAnywhere(caches, RequestUrl(h.request)) THEN 0 ELSE 1
              /\ IsResponse(g.cached) = HeldAnywhere(caches, RequestUrl(h.request))]_vars

\* C10 witness: a cacheFirst call that missed has finished after one fetch.
CacheFirstMissFetchedOnce ==
  \E h \in InFlight :
    /\ h.strategy = "cacheFirst"
    /\ h.pc = "done"
    /\ h.cached = undefined
    /\ h.fetches = 1

OkStatus(v) == IsResponse(v) /\ v.status \in 200..299

\* C11: when networkFirst's fetch is rejected, the call returns a copy held
\* by some generation if there is one at its lookup, and goes to
\* offlineFallback only when no generation holds the request.
NetworkFirstFallsBackToAnyGeneration ==
  /\ [][\A h \in InFlight :
          NetworkFirstCatch(h) =>
            \E g \in BagToSet(handlers') :
              /\ handlers' = Step(h, g)
              /\ IF HeldAnywhere(caches, RequestUrl(h.request))
                 THEN /\ g.pc = "done"
                      /\ ~g.viaFallback
                      /\ \E i \in 1..Len(caches) :
                           /\ RequestUrl(h.request) \in DOMAIN caches[i].store
                           /\ g.result = caches[i].store[RequestUrl(h.request)]
                 ELSE g.viaFallback]_vars
  /\ [](\A h \in InFlight :
          (h.strategy = "networkFirst" /\ h.viaFallback) =>
            (h.response = NetworkError /\ h.cached = undefined))

\* C11 witness: a networkFirst call whose fetch was rejected returned the
\* cached copy.
NetworkFirstServedCachedCopy ==
  \E h \in InFlight :
    /\ h.strategy = "networkFirst"
    /\ h.pc = "done"
    /\ h.response = NetworkError
    /\ IsResponse(h.cached)
    /\ h.result = h.cached
    /\ ~h.viaFallback

\* C12 as stated: staleWhileRevalidate without a cached copy returns the
\* fetch result only when it has an ok status, and the offline fallback in
\* every other case.
SwrMissReturnsOnlyOkFetch ==
  \A h \in InFlight :
    (h.strategy = "staleWhileRevalidate" /\ h.cached = undefined
       /\ h.pc = "done")
    => \/ OkStatus(h.response) /\ h.result = h.response
       \/ h.viaFallback

\* C12 amended: staleWhileRevalidate without a cached copy stays unresolved
\* until its fetch settles, returns the response the fetch settled with
\* whatever its status, and the offline fallback only when the fetch was
\* rejected with a network error.
SwrMissReturnsAnyFetchResponse ==
  \A h \in InFlight :
    (h.strategy = "staleWhileRevalidate" /\ h.cached = undefined) =>
      /\ h.pc = "swr_fetch" => h.result = Pending
      /\ h.pc = "done" =>
           IF IsResponse(h.response)
           THEN h.result = h.response /\ ~h.viaFallback
           ELSE /\ h.response = NetworkError
                /\ h.viaFallback
                /\ h.result = OfflineResponse

\* C12 witness: such a call returned a 404 it had fetched.
SwrMissReturnedNonOk ==
  \E h \in InFlight :
    /\ h.strategy = "staleWhileRevalidate"
    /\ h.cached = undefined
    /\ h.pc = "done"
    /\ IsResponse(h.response) /\ h.response.status = 404
    /\ h.result = h.response

\* C15: a cacheFirst call that missed the caches returns an ok fetched
\* response and puts a copy under the request's key into the static
\* generation; it returns a non-ok response as it is and a rejected fetch
\* goes to offlineFallback, both without a put; no put of cacheFirst changes
\* the dynamic generation.
CacheFirstMissOutcomes ==
  /\ [](\A h \in InFlight :
          (h.strategy = "cacheFirst" /\ h.cached = undefined
             /\ h.pc \in {"done", "fb_match"}) =>
            /\ OkStatus(h.response) =>
                 (h.result = h.response /\ h.put \in {"pending", "done"}
                    /\ ~h.viaFallback)
            /\ (IsResponse(h.response) /\ ~OkStatus(h.response)) =>
                 (h.result = h.response /\ h.put = "none" /\ ~h.viaFallback)
            /\ h.response = NetworkError => (h.viaFallback /\ h.put = "none"))
  /\ [][\A h \in InFlight :
          (h.strategy = "cacheFirst" /\ PutComplete(h)) =>
            /\ OkStatus(h.response)
            /\ CacheMatch(caches', STATIC_CACHE, RequestUrl(h.request))
                 = h.response
            /\ CacheStore(caches', DYNAMIC_CACHE)
                 = CacheStore(caches, DYNAMIC_CACHE)]_vars

\* C15 witness: a cacheFirst miss fetched an ok response, returned it and
\* its copy is in the static generation.
CacheFirstMissStoredInStatic ==
  \E h \in InFlight :
    /\ h.strategy = "cacheFirst"
    /\ h.cached = undefined
    /\ OkStatus(h.response)
    /\ h.result = h.response
    /\ h.put = "done"
    /\ CacheMatch(caches, STATIC_CACHE, RequestUrl(h.request)) = h.response

\* C16: every staleWhileRevalidate call that has done its lookup has issued
\* one fetch, cached copy or not; an ok fetch leads to a put that sets the
\* dynamic entry of the request to the fetched response; and a lookup reads
\* the dynamic entry as it is at that moment, so a call whose lookup follows
\* a completed update, with no other write to the key in between, returns
\* the refreshed response.
SwrRevalidatesAndRefreshes ==
  /\ [](\A h \in InFlight :
          h.strategy = "staleWhileRevalidate" =>
            /\ h.cached # Pending => h.fetches = 1
            /\ OkStatus(h.response) => h.put \in {"pending", "done"}
            /\ h.put # "none" => OkStatus(h.response))
  /\ [][\A h \in InFlight :
          /\ (h.strategy = "staleWhileRevalidate" /\ PutComplete(h)) =>
               CacheMatch(caches', DYNAMIC_CACHE, RequestUrl(h.request))
                 = h.response
          /\ StaleWhileRevalidateLookup(h) =>
               \E g \in BagToSet(handlers') :
                 /\ handlers' = Step(h, g)
                 /\ g.cached = CacheMatch(caches, DYNAMIC_CACHE,
                                          RequestUrl(h.request))
                 /\ g.cached # undefined => g.result = g.cached]_vars

\* C16 witness: a call that returned the stale copy has completed its
\* update, and another call for the same request returned the refreshed
\* response.
SwrNextCallServedRefreshed ==
  \E a \in InFlight, b \in InFlight :
    /\ a.strategy = "staleWhileRevalidate"
    /\ b.strategy = "staleWhileRevalidate"
    /\ a.request = b.request
    /\ IsResponse(a.cached) /\ a.result = a.cached
    /\ a.put = "done"
    /\ a.response # a.cached
    /\ b.cached = a.response
    /\ b.result = a.response

\* C19: every entry of the static and the dynamic generation has an ok
\* status (so a non-ok response or the 503 fallback is never stored); the
\* static generation is changed only by install and by a put of cacheFirst,
\* the dynamic generation only by a put of networkFirst or
\* staleWhileRevalidate.
OnlyOkResponsesStored ==
  /\ [](\A name \in Current :
          \A url \in DOMAIN CacheStore(caches, name) :
            /\ CacheStore(caches, name)[url].status \in 200..299
            /\ CacheStore(caches, name)[url] # OfflineResponse)
  /\ [][/\ CacheStore(caches', STATIC_CACHE) # CacheStore(caches, STATIC_CACHE)
            => \/ \E fetched \in InstallFetches : Install(fetched)
               \/ \E h \in InFlight :
                    h.strategy = "cacheFirst" /\ PutComplete(h)
        /\ CacheStore(caches', DYNAMIC_CACHE) # CacheStore(caches, DYNAMIC_CACHE)
            => \E h \in InFlight :
                 /\ h.strategy \in {"networkFirst", "staleWhileRevalidate"}
                 /\ PutComplete(h)]_vars

\* C19 witness: networkFirst fetched a 404, returned it and stored nothing
\* under its key, while another call's put has written its ok response.
NonOkReturnedNotStored ==
  \E h \in InFlight, g \in InFlight :
    /\ h.strategy = "networkFirst"
    /\ h.pc = "done"
    /\ IsResponse(h.response) /\ h.response.status = 404
    /\ h.result = h.response
    /\ RequestUrl(h.request) \notin DOMAIN CacheStore(caches, DYNAMIC_CACHE)
    /\ g.put = "done"
    /\ CacheMatch(caches, PutCache(g), RequestUrl(g.request)) = g.response

\* C17: calls that write one key are not coordinated: a put that completes
\* sets the entry to its own response whatever the entry was, and an entry
\* of a current generation changes only when install or a put completes, so
\* after all calls have finished the entry is the response of the put that
\* completed last.
LastWriteWins ==
  /\ [][\A h \in InFlight :
          PutComplete(h) =>
            CacheMatch(caches', PutCache(h), RequestUrl(h.request))
              = h.response]_vars
  /\ [][\A name \in Current :
          \A url \in DOMAIN CacheStore(caches', name) :
            CacheMatch(caches', name, url) # CacheMatch(caches, name, url) =>
              \/ \E fetched \in InstallFetches : Install(fetched)
              \/ \E h \in InFlight :
                   /\ PutComplete(h)
                   /\ PutCache(h) = name
                   /\ RequestUrl(h.request) = url
                   /\ CacheMatch(caches', name, url) = h.response]_vars

\* C17 witness: two networkFirst calls of one request have finished and
\* their puts have completed; the second was dispatched after the first had
\* been resolved, fetched a different response, and the entry is the
\* response of the first.
FirstIssuedFetchWroteLast ==
  \E a \in InFlight, b \in InFlight :
    /\ a.strategy = "networkFirst" /\ b.strategy = "networkFirst"
    /\ a.request = b.request
    /\ b.prior = a.response
    /\ OkStatus(a.response) /\ OkStatus(b.response)
    /\ a.response # b.response
    /\ a.pc = "done" /\ b.pc = "done"
    /\ a.put = "done" /\ b.put = "done"
    /\ CacheMatch(caches, DYNAMIC_CACHE, RequestUrl(a.request)) = a.response

\* C20: a networkFirst or cacheFirst call dispatched after a call of the
\* same request had been resolved with an ok live response, and whose own
\* fetch is rejected, returns a cached copy and not the offline fallback.
ReadAfterWrite ==
  \A h \in InFlight :
    (/\ h.strategy \in {"cacheFirst", "networkFirst"}
     /\ IsResponse(h.prior)
     /\ h.response = NetworkError
     /\ h.pc \in {"done", "fb_match"})
    => (~h.viaFallback /\ IsResponse(h.result))

\* C13: every push event that carries data displays exactly one
\* notification: with the title, body, url and tag of the parsed data (the
\* defaults for missing ones) when json() succeeds, and with the text as
\* body, the catch block's title, the default tag and the default url when
\* json() throws.
PushAlwaysShowsOneNotification ==
  \A i \in 1..Len(pushLog) :
    pushLog[i].data # NoData =>
      /\ ~pushLog[i].threw
      /\ Len(pushLog[i].shown) = 1
      /\ LET n == pushLog[i].shown[1]
             json == pushLog[i].data.json
         IN IF json = SyntaxError
            THEN /\ n.body = pushLog[i].data.text
                 /\ n.title = CatchTitle
                 /\ n.tag = DefaultTag
                 /\ n.data.url = DefaultUrl
            ELSE /\ n.title = OrDefault(json, "title", DefaultTitle)
                 /\ n.body = OrDefault(json, "body", DefaultBody)
                 /\ n.data.url = OrDefault(json, "url", DefaultUrl)
                 /\ n.tag = OrDefault(json, "tag", DefaultTag)

\* C14: a notificationclick closes the notification; with the action
\* "fechar" the windows are left as they are; with any other action the
\* first open window is navigated to the notification's url and focused and
\* no window is opened, or, when no window is open, one window is opened at
\* that url.
NotificationClickContract ==
  [][\A i \in 1..Len(pushLog), action \in NotificationActions :
       NotificationClick(i, action) =>
         LET target == SelfUrl(pushLog[i].shown[1].data.url) IN
         /\ pushLog'[i].closed
         /\ action = "fechar" => windows' = windows
         /\ action # "fechar" =>
              IF windows # << >>
              THEN /\ Len(windows') = Len(windows)
                   /\ windows'[1] = WindowClient(target, TRUE)
                   /\ \A j \in 2..Len(windows) :
                        windows'[j].url = windows[j].url
              ELSE windows' = <<WindowClient(target, TRUE)>>]_vars

\* C14 witness: with two windows open, a click on the notification of the
\* order message has navigated the first one to /compras.html and focused
\* it, and no window was opened.
ExistingWindowNavigated ==
  \E i \in 1..Len(pushLog) :
    /\ pushLog[i].closed
    /\ pushLog[i].shown[1].data.url = "/compras.html"
    /\ Len(windows) = 2
    /\ windows[1] = WindowClient(SelfUrl("/compras.html"), TRUE)
    /\ windows[2].url \in {SelfUrl(pathname) : pathname \in WindowPaths}

\* C18: no step of install, activate, fetch, push, notificationclick or
\* sync takes a key out of the dynamic generation, and an entry of it is
\* added or replaced only by the completing put of a call whose fetch
\* returned an ok status.
DynamicKeysNeverShrink ==
  [][/\ DOMAIN CacheStore(caches, DYNAMIC_CACHE)
          \subseteq DOMAIN CacheStore(caches', DYNAMIC_CACHE)
     /\ CacheStore(caches', DYNAMIC_CACHE) # CacheStore(caches, DYNAMIC_CACHE)
          => \E h \in InFlight :
               /\ PutComplete(h)
               /\ OkStatus(h.response)
               /\ CacheStore(caches', DYNAMIC_CACHE)
                    = StorePut(CacheStore(caches, DYNAMIC_CACHE),
                               RequestUrl(h.request), h.response)]_vars

\* C18 witness: the activate listener has run twice and deleted an old
\* generation, a push has displayed a notification that was clicked, and the
\* dynamic generation still holds the key it had before the worker was
\* installed, its entry replaced by the put of a staleWhileRevalidate call.
DynamicEntriesSurviveEvents ==
  /\ Len(deleted) = 2
  /\ \E i \in 1..Len(pushLog) : pushLog[i].closed
  /\ SelfUrl("/img/logo.png") \in DOMAIN CacheStore(caches, DYNAMIC_CACHE)
  /\ OLD_STATIC \in deleted[1]
  /\ \E h \in InFlight :
       /\ h.strategy = "staleWhileRevalidate"
       /\ h.put = "done"
       /\ CacheMatch(caches, DYNAMIC_CACHE, RequestUrl(h.request)) = h.response
       /\ h.response # h.cached
====
